---------------------------- MODULE Spec2Model ----------------------------
(***************************************************************************)
(* Model of the loop-scrubbing engine of                                   *)
(* src/src/components/Picker/Picker.tsx: the DragScroll class (iteration,  *)
(* the scrub tween and its playhead proxy, the Draggable callbacks) and    *)
(* the closures of Picker's useEffect (the ScrollTrigger onUpdate, wrap,   *)
(* progressToScroll, scrollToOffset, the scrollEnd and next/prev           *)
(* listeners).                                                             *)
(*                                                                         *)
(* Arithmetic is exact.  Times (offsets) are integers in ticks of          *)
(* 1/TicksPerSecond s and scroll positions are integers in sub-pixels of   *)
(* 1/NumItems px, so that every value the code computes from the inputs    *)
(* of the model (spacing multiples, scroll/end * duration) is an integer:  *)
(*    spacing       = 0.1 s  = 3000 ticks                                  *)
(*    cycleDuration = 3.1 s  = 93000 ticks  (seamlessLoop.duration())      *)
(*    trigger.end   = 3000px = 93000 sub-pixels                            *)
(*    1 px of drag  = 0.001 s = 30 ticks                                   *)
(* Floating point rounding is not modelled.                                *)
(*                                                                         *)
(* The collaborators are modelled by what the source says of them:         *)
(*  - trigger.update() calls onUpdate when the scroll position is not the  *)
(*    one of the last update ("That'll call the onUpdate() on the trigger  *)
(*    if there's a change"), and sets self.direction from the change;      *)
(*  - trigger.scroll(v) moves the page at once and its update comes one    *)
(*    tick later (ScrollUpdate), unless wrap() forces it;                  *)
(*  - scrollEnd fires once scrolling has stopped: after scroll events,     *)
(*    with no update pending;                                              *)
(*  - scrub.invalidate().restart() re-records the tween's start and end;   *)
(*    the tween's onUpdate runs on its frames.                             *)
(* Each action is one callback with everything it calls.                   *)
(***************************************************************************)
EXTENDS Integers, Sequences, FiniteSets

\* ------------------------------------------------------------ constants
\* the <li> cards of the gallery: items.length in buildSeamlessLoop
NumItems == 31
\* const spacing = 0.1, in milliseconds
SpacingMs == 100
\* ScrollTrigger end: "+=3000" with start: 0, in px
EndPx == 3000
\* the reserved zone at either end of the scroll range: self.end - 1, scroll < 1
BufferPx == 1
\* the drag sensitivity 0.001 s per px, in microseconds per px
SensitivityUs == 1000
\* duration of one animateFunc() timeline, in milliseconds
AnimMs == 1000

\* ------------------------------------------------------------ bounds
\* driver events (scrolls, clicks, drag callbacks, scrollEnd) in one run
MaxEvents == 3
\* frames the 0.5 s scrub tween takes from restart to completion
TweenFrames == 2
\* nested trigger.update() -> onUpdate -> wrap calls followed in one handler
MaxReentry == 3
\* items of the lists buildSeamlessLoop is tried on
MaxItems == 6

\* ------------------------------------------------------------ units
TicksPerSecond == (EndPx * 1000) \div SpacingMs
Spacing == (SpacingMs * TicksPerSecond) \div 1000
\* cycleDuration = spacing * items.length = seamlessLoop.duration()
Cycle == Spacing * NumItems
\* trigger.end in sub-pixels
ScrollEnd == EndPx * NumItems
Buffer == BufferPx * NumItems
\* ticks per dragged pixel
DragTicks == (SensitivityUs * TicksPerSecond) \div 1000000
\* ticks of offset per sub-pixel of scroll: seamlessLoop.duration() / trigger.end
TicksPerSubPixel == Cycle \div ScrollEnd
\* dur: anim.duration()
Dur == (AnimMs * TicksPerSecond) \div 1000

\* ------------------------------------------------------------ inputs
\* scroll positions the user drives the page to (sub-pixels): 0, 1px,
\* 1483 27/31 px (between two items), 2970 30/31 px (offset 3.07 s), end - 1px, end
ScrollInputs == {0, Buffer, 46000, 92100, ScrollEnd - Buffer, ScrollEnd}
\* startX - x of a drag move, in px (positive: dragged to the left)
DragInputs == {-6250, -50, 100, 1000, 6250}

\* ------------------------------------------------------------ gsap.utils
\* the JavaScript remainder: the sign of the dividend
JsMod(a, b) == IF a >= 0 THEN a % b ELSE -((-a) % b)

WrapNoShift(min, max, v) == JsMod(v - min, max - min) + min

\* gsap.utils.wrap(min, max, value)
Wrap(min, max, v) ==
    JsMod(JsMod(v - min, max - min) + (max - min), max - min) + min

\* gsap.utils.clamp(min, max, value)
Clamp(min, max, v) == IF v < min THEN min ELSE IF v > max THEN max ELSE v

\* Math.trunc(n / d): rounds toward zero
TruncDiv(n, d) == IF n >= 0 THEN n \div d ELSE -((-n) \div d)

\* Math.floor(n / d) for d > 0
FloorDiv(n, d) == n \div d

\* rounding down instead of to the nearest
RoundDivDown(n, d) == n \div d

\* Math.round(n / d) for d > 0: halves go up
RoundDiv(n, d) == (2 * n + d) \div (2 * d)

\* a snap that rounds every offset up to the next item
snapTimeUp(v) == ((v + Spacing - 1) \div Spacing) * Spacing

\* snapTime = gsap.utils.snap(spacing)
snapTime(v) == RoundDiv(v, Spacing) * Spacing

\* wrapTime = gsap.utils.wrap(0, seamlessLoop.duration())
wrapTime(v) == Wrap(0, Cycle, v)

\* ease "power3" (power3.out) after frame t of TweenFrames, times TweenFrames^3
EaseNum(t) ==
    TweenFrames * TweenFrames * TweenFrames
        - (TweenFrames - t) * (TweenFrames - t) * (TweenFrames - t)
EaseDen == TweenFrames * TweenFrames * TweenFrames


\* ------------------------------------------------------------ state
VARIABLES
    iteration,    \* DragScroll.iteration
    varsOffset,   \* scrub.vars.offset: the target the drivers write
    playhead,     \* playhead.offset: the value the scrub tween animates
    tweenFrom,    \* the tween's recorded start value (since its last restart)
    tweenTo,      \* the tween's recorded end value (since its last restart)
    tweenT,       \* frames rendered since the restart; TweenFrames: not running
    loopTime,     \* seamlessLoop.time(), set by the tween's onUpdate
    scroll,       \* trigger.scroll(): the page's scroll position
    progress,     \* self.progress * self.end: the scroll position of the last update
    direction,    \* self.direction
    scrolling,    \* scroll events have happened since the last scrollEnd
    pressed,      \* a drag is in progress (between onPress and onDragEnd)
    startOffset,  \* Draggable's this.startOffset
    lastSnap,     \* the last scrollToOffset call, until another driver writes
    wrapCalls,    \* the wrap(iterationDelta, scrollTo) calls of the last handler
    nWraps,       \* wrap() calls since construction
    hist,         \* the driver events since construction
    config,       \* the arguments of buildSeamlessLoop: items.length, spacing, dur
    loop,         \* what buildSeamlessLoop returned
    phase,        \* "config", "built" (the loop is returned), "scrubbing" (the
                  \* DragScroll and the trigger exist)
    sampled       \* the last seamlessLoop.time(w): the raw timeline's read head

buildVars == <<config, loop, phase, sampled>>

vars == <<iteration, varsOffset, playhead, tweenFrom, tweenTo, tweenT, loopTime,
          scroll, progress, direction, scrolling, pressed, startOffset,
          lastSnap, wrapCalls, nWraps, hist, config, loop, phase, sampled>>

\* ------------------------------------------------------------ the cycle
\* no loop yet
NoLoop ==
    [built |-> FALSE, n |-> 0, spacing |-> 0, cycleDuration |-> 0,
     hasDur |-> FALSE, dur |-> 0, starts |-> <<>>, from |-> 0, to |-> 0]

\* function buildSeamlessLoop(items, spacing, animateFunc), with n = items.length
\* and d the duration of one animateFunc() timeline.  starts: the position of
\* each of the 3 n animations on rawSequence (animation i + 1 is items[i % n]);
\* dur stays undefined when there is no item; from, to: the fromTo of the raw
\* timeline's time, over cycleDuration.  There is no check of the arguments.
buildSeamlessLoop(n, spacing, d) ==
    [built |-> TRUE, n |-> n, spacing |-> spacing,
     cycleDuration |-> spacing * n,
     hasDur |-> n > 0,
     dur |-> IF n > 0 THEN d ELSE 0,
     starts |-> [i \in 1..(3 * n) |-> (i - 1) * spacing],
     from |-> spacing * n + (IF n > 0 THEN d ELSE 0) \div 2,
     to |-> spacing * n + (IF n > 0 THEN d ELSE 0) \div 2 + spacing * n]

\* the time of rawSequence when seamlessLoop is at time w: the linear fromTo
ReadHead(l, w) == l.from + w

\* the animations of rawSequence that are running at its time t, each as
\* <<item, time into the animation>>
ActiveAt(l, t) ==
    {<<(i - 1) % l.n, t - l.starts[i]>> :
        i \in {j \in DOMAIN l.starts : l.starts[j] <= t /\ t <= l.starts[j] + l.dur}}

NoSample == [taken |-> FALSE, w |-> 0, t |-> 0]

\* kind: the listener; from: scrub.vars.offset at the call; arg: the offset passed;
\* snapped: snappedTime; num: progress * Cycle; scrollTo: progressToScroll(progress);
\* moved: scrollTo is not the position of the trigger's last update
NoSnap ==
    [kind |-> "none", from |-> 0, arg |-> 0, snapped |-> 0, num |-> 0,
     scrollTo |-> 0, moved |-> FALSE]

\* ------------------------------------------------------------ the trigger
\* The part of the state a ScrollTrigger callback chain reads and writes.
\* restarted: scrub.invalidate().restart() was called; calls: the wrap() calls
\* made; fuel: nested updates still followed.
Handler ==
    [iteration |-> iteration, scroll |-> scroll, progress |-> progress,
     direction |-> direction, offset |-> varsOffset, restarted |-> FALSE,
     calls |-> <<>>, fuel |-> MaxReentry]

RECURSIVE TriggerUpdate(_)

\* the else branch of onUpdate without the iteration term
ScrubToProgressOnly(st) ==
    [st EXCEPT !.offset = st.progress * TicksPerSubPixel, !.restarted = TRUE]

\* the else branch of onUpdate: scrub.vars.offset = (iteration + self.progress) * duration
ScrubToProgress(st) ==
    [st EXCEPT !.offset = (st.iteration * ScrollEnd + st.progress) * TicksPerSubPixel,
               !.restarted = TRUE]

\* wrap without its trigger.scroll(scrollTo)
wrapNoScroll(st, iterationDelta, scrollTo) ==
    TriggerUpdate([st EXCEPT !.iteration = @ + iterationDelta,
                             !.calls = Append(@, <<iterationDelta, scrollTo>>)])

\* wrap that always steps iteration by one in the direction of iterationDelta
wrapByOne(st, iterationDelta, scrollTo) ==
    TriggerUpdate([st EXCEPT !.iteration = @ + (IF iterationDelta > 0 THEN 1 ELSE -1),
                             !.scroll = scrollTo,
                             !.calls = Append(@, <<iterationDelta, scrollTo>>)])

\* function wrap(iterationDelta, scrollTo)
wrap(st, iterationDelta, scrollTo) ==
    TriggerUpdate([st EXCEPT !.iteration = @ + iterationDelta,
                             !.scroll = scrollTo,
                             !.calls = Append(@, <<iterationDelta, scrollTo>>)])

\* onUpdate wrapping backward to the very end instead of end - 1
onUpdateToEnd(st) ==
    IF st.scroll > ScrollEnd - Buffer
    THEN wrap(st, 1, Buffer)
    ELSE IF st.scroll < Buffer /\ st.direction < 0
         THEN wrap(st, -1, ScrollEnd)
         ELSE ScrubToProgress(st)

\* onUpdate with the two wrap positions exchanged
onUpdateSwapped(st) ==
    IF st.scroll > ScrollEnd - Buffer
    THEN wrap(st, 1, ScrollEnd - Buffer)
    ELSE IF st.scroll < Buffer /\ st.direction < 0
         THEN wrap(st, -1, Buffer)
         ELSE ScrubToProgress(st)

\* onUpdate whose forward zone begins at end - 1 itself
onUpdateGe(st) ==
    IF st.scroll >= ScrollEnd - Buffer
    THEN wrap(st, 1, Buffer)
    ELSE IF st.scroll < Buffer /\ st.direction < 0
         THEN wrap(st, -1, ScrollEnd - Buffer)
         ELSE ScrubToProgress(st)

\* ScrollTrigger.create({ onUpdate(self) { ... } })
onUpdate(st) ==
    IF st.scroll > ScrollEnd - Buffer
    THEN wrap(st, 1, Buffer)
    ELSE IF st.scroll < Buffer /\ st.direction < 0
         THEN wrap(st, -1, ScrollEnd - Buffer)
         ELSE ScrubToProgress(st)

\* trigger.update(): when the scroll position has changed since the last update,
\* records progress and direction and calls onUpdate
TriggerUpdate(st) ==
    IF st.scroll = st.progress \/ st.fuel = 0
    THEN st
    ELSE onUpdate([st EXCEPT !.direction = IF st.scroll > st.progress THEN 1 ELSE -1,
                             !.progress = st.scroll,
                             !.fuel = @ - 1])

\* progressToScroll without its clamp to [1, end - 1]
progressToScrollNoClamp(num) ==
    Wrap(0, Cycle, num) \div TicksPerSubPixel

\* progressToScroll, of progress = num / Cycle: wrap(0, 1, progress) * trigger.end
\* is Wrap(0, Cycle, num) ticks of the cycle, in sub-pixels
progressToScroll(num) ==
    Clamp(Buffer, ScrollEnd - Buffer, Wrap(0, Cycle, num) \div TicksPerSubPixel)

\* the numerator of progress in scrollToOffset: progress = ProgressNum / Cycle
ProgressNum(snappedTime, iter) == snappedTime - Cycle * iter

\* function scrollToOffset(offset)
scrollToOffset(st, offset) ==
    LET snappedTime == snapTime(offset)
        num == ProgressNum(snappedTime, st.iteration)
        scrollTo == progressToScroll(num)
    IN  IF num >= Cycle \/ num < 0
        THEN wrap(st, FloorDiv(num, Cycle), scrollTo)
        ELSE [st EXCEPT !.scroll = scrollTo]

SnapRecord(kind, offset) ==
    [kind |-> kind, from |-> varsOffset, arg |-> offset, snapped |-> snapTime(offset),
     num |-> ProgressNum(snapTime(offset), iteration),
     scrollTo |-> progressToScroll(ProgressNum(snapTime(offset), iteration)),
     moved |-> progressToScroll(ProgressNum(snapTime(offset), iteration)) # progress]

\* ------------------------------------------------------------ actions
\* a callback chain whose write of vars.offset does not restart the tween
CommitNoRestart(st) ==
    /\ iteration' = st.iteration
    /\ scroll' = st.scroll
    /\ progress' = st.progress
    /\ direction' = st.direction
    /\ varsOffset' = st.offset
    /\ wrapCalls' = st.calls
    /\ nWraps' = nWraps + Len(st.calls)
    /\ UNCHANGED <<tweenFrom, tweenTo, tweenT>>
    /\ UNCHANGED <<playhead, loopTime, config, loop, phase, sampled>>

\* What a callback chain that ended in state st leaves behind.  A restart
\* re-records the tween's start (the playhead as it is) and end (vars.offset).
Commit(st) ==
    /\ iteration' = st.iteration
    /\ scroll' = st.scroll
    /\ progress' = st.progress
    /\ direction' = st.direction
    /\ varsOffset' = st.offset
    /\ wrapCalls' = st.calls
    /\ nWraps' = nWraps + Len(st.calls)
    /\ IF st.restarted
       THEN /\ tweenFrom' = playhead
            /\ tweenTo' = st.offset
            /\ tweenT' = 0
       ELSE UNCHANGED <<tweenFrom, tweenTo, tweenT>>
    /\ UNCHANGED <<playhead, loopTime, config, loop, phase, sampled>>

Record(ev, arg) == hist' = Append(hist, [ev |-> ev, arg |-> arg])

\* the user scrolls the page to s; ScrollTrigger updates
UserScroll(s) ==
    /\ Len(hist) < MaxEvents
    /\ s # scroll
    /\ Commit(TriggerUpdate([Handler EXCEPT !.scroll = s]))
    /\ scrolling' = TRUE
    /\ lastSnap' = NoSnap
    /\ Record("scroll", s)
    /\ UNCHANGED <<pressed, startOffset>>

\* the update one tick after a trigger.scroll() that moved the page
ScrollUpdate ==
    /\ scroll # progress
    /\ Commit(TriggerUpdate(Handler))
    /\ UNCHANGED <<scrolling, pressed, startOffset, lastSnap, hist>>

\* a listener that calls scrollToOffset(offset)
SnapTo(kind, offset) ==
    LET st == scrollToOffset(Handler, offset)
    IN  /\ Commit(st)
        /\ lastSnap' = SnapRecord(kind, offset)
        /\ Record(kind, offset)
        /\ UNCHANGED <<pressed, startOffset>>

\* ScrollTrigger.addEventListener("scrollEnd", ...): scrolling has stopped
OnScrollEnd ==
    /\ Len(hist) < MaxEvents
    /\ scrolling
    /\ scroll = progress
    /\ SnapTo("scrollEnd", varsOffset)
    /\ scrolling' = (scroll' # scroll)

\* .next click
ClickNext ==
    /\ Len(hist) < MaxEvents
    /\ SnapTo("next", varsOffset + Spacing)
    /\ scrolling' = (scrolling \/ scroll' # scroll)

\* .prev click
ClickPrev ==
    /\ Len(hist) < MaxEvents
    /\ SnapTo("prev", varsOffset - Spacing)
    /\ scrolling' = (scrolling \/ scroll' # scroll)

\* Draggable onPress
onPress ==
    /\ Len(hist) < MaxEvents
    /\ ~pressed
    /\ pressed' = TRUE
    /\ startOffset' = varsOffset
    /\ Record("press", 0)
    /\ UNCHANGED <<iteration, varsOffset, playhead, tweenFrom, tweenTo, tweenT,
                   loopTime, scroll, progress, direction, scrolling, lastSnap,
                   wrapCalls, nWraps, config, loop, phase, sampled>>

\* onDrag adding the drag distance to the target as it is now
onDragFromTarget(dx) ==
    /\ Len(hist) < MaxEvents
    /\ pressed
    /\ varsOffset' = varsOffset + dx * DragTicks
    /\ tweenFrom' = playhead
    /\ tweenTo' = varsOffset'
    /\ tweenT' = 0
    /\ lastSnap' = NoSnap
    /\ wrapCalls' = <<>>
    /\ Record("drag", dx)
    /\ UNCHANGED <<iteration, playhead, loopTime, scroll, progress, direction,
                   scrolling, pressed, startOffset, nWraps, config, loop, phase,
                   sampled>>

\* Draggable onDrag, with dx = this.startX - this.x in px
onDrag(dx) ==
    /\ Len(hist) < MaxEvents
    /\ pressed
    /\ varsOffset' = startOffset + dx * DragTicks
    /\ tweenFrom' = playhead
    /\ tweenTo' = varsOffset'
    /\ tweenT' = 0
    /\ lastSnap' = NoSnap
    /\ wrapCalls' = <<>>
    /\ Record("drag", dx)
    /\ UNCHANGED <<iteration, playhead, loopTime, scroll, progress, direction,
                   scrolling, pressed, startOffset, nWraps, config, loop, phase,
                   sampled>>

\* the pointer has moved since the press: a drag move is the last drag callback
Dragged ==
    \E i \in DOMAIN hist :
        /\ hist[i].ev = "drag"
        /\ \A j \in (i + 1)..Len(hist) : hist[j].ev \notin {"press", "dragEnd", "release"}

\* the pointer is released.  After a drag Draggable calls onDragEnd, whose body
\* is commented out; a press without a move ends without it.
onDragEnd ==
    /\ Len(hist) < MaxEvents
    /\ pressed
    /\ pressed' = FALSE
    /\ Record(IF Dragged THEN "dragEnd" ELSE "release", 0)
    /\ UNCHANGED <<iteration, varsOffset, playhead, tweenFrom, tweenTo, tweenT,
                   loopTime, scroll, progress, direction, scrolling, startOffset,
                   lastSnap, wrapCalls, nWraps, config, loop, phase, sampled>>

\* a tween that stops half way to its end value
TweenValueHalfWay(from, to, t) == from + ((to - from) * EaseNum(t)) \div (2 * EaseDen)

\* the value the tween gives playhead.offset after frame t
TweenValue(from, to, t) == from + ((to - from) * EaseNum(t)) \div EaseDen

\* one frame of the running scrub tween, and its onUpdate
TweenFrame ==
    /\ tweenT < TweenFrames
    /\ tweenT' = tweenT + 1
    /\ playhead' = TweenValue(tweenFrom, tweenTo, tweenT + 1)
    /\ loopTime' = wrapTime(playhead')
    /\ UNCHANGED <<iteration, varsOffset, tweenFrom, tweenTo, scroll, progress,
                   direction, scrolling, pressed, startOffset, lastSnap,
                   wrapCalls, nWraps, hist, config, loop, phase, sampled>>

\* the state after new DragScroll(seamlessLoop) and ScrollTrigger.create
Init ==
    /\ iteration = 0
    /\ varsOffset = 0
    /\ playhead = 0
    /\ tweenFrom = 0
    /\ tweenTo = 0
    /\ tweenT = TweenFrames
    /\ loopTime = 0
    /\ scroll = 0
    /\ progress = 0
    /\ direction = 1
    /\ scrolling = FALSE
    /\ pressed = FALSE
    /\ startOffset = 0
    /\ lastSnap = NoSnap
    /\ wrapCalls = <<>>
    /\ nWraps = 0
    /\ hist = <<>>
    /\ config = [n |-> NumItems, spacing |-> Spacing, dur |-> Dur]
    /\ loop = buildSeamlessLoop(NumItems, Spacing, Dur)
    /\ phase = "scrubbing"
    /\ sampled = NoSample

Next ==
    \/ \E s \in ScrollInputs : UserScroll(s)
    \/ ScrollUpdate
    \/ OnScrollEnd
    \/ ClickNext
    \/ ClickPrev
    \/ onPress
    \/ \E dx \in DragInputs : onDrag(dx)
    \/ onDragEnd
    \/ TweenFrame

Spec == Init /\ [][Next]_vars

\* gsap's ticker renders a frame of every running tween, and ScrollTrigger
\* updates on the tick after the scroll position was written
FairSpec == Spec /\ WF_vars(TweenFrame) /\ WF_vars(ScrollUpdate)

\* ------------------------------------------------------------ the build
\* The setup of Picker's useEffect for any item list, spacing and animation
\* duration (times in units of the smallest spacing): buildSeamlessLoop, then
\* new DragScroll(seamlessLoop), then the scrub tween's onUpdate seeking the loop.
SpacingInputs == {-1, 0, 1, 2}
DurInputs == {2, 4, 10}

scrubVars == <<iteration, varsOffset, playhead, tweenFrom, tweenTo, tweenT, loopTime,
               scroll, progress, direction, scrolling, pressed, startOffset,
               lastSnap, wrapCalls, nWraps, hist>>

\* const seamlessLoop = buildSeamlessLoop(cards, spacing, animateFunc)
Build ==
    /\ phase = "config"
    /\ loop' = buildSeamlessLoop(config.n, config.spacing, config.dur)
    /\ phase' = "built"
    /\ UNCHANGED <<config, sampled>>
    /\ UNCHANGED scrubVars

\* const scrubber = new DragScroll(seamlessLoop), ScrollTrigger.create(...)
Construct ==
    /\ phase = "built"
    /\ phase' = "scrubbing"
    /\ iteration' = 0
    /\ playhead' = 0
    /\ varsOffset' = 0
    /\ UNCHANGED <<config, loop, sampled>>
    /\ UNCHANGED <<tweenFrom, tweenTo, tweenT, loopTime, scroll, progress, direction,
                   scrolling, pressed, startOffset, lastSnap, wrapCalls, nWraps, hist>>

\* seamlessLoop.time(w), for a wrapped time w of the tween's onUpdate
Seek(w) ==
    /\ phase = "scrubbing"
    /\ loop.cycleDuration > 0
    /\ 0 <= w /\ w < loop.cycleDuration
    /\ sampled' = [taken |-> TRUE, w |-> w, t |-> ReadHead(loop, w)]
    /\ loopTime' = w
    /\ UNCHANGED <<config, loop, phase>>
    /\ UNCHANGED <<iteration, varsOffset, playhead, tweenFrom, tweenTo, tweenT,
                   scroll, progress, direction, scrolling, pressed, startOffset,
                   lastSnap, wrapCalls, nWraps, hist>>

BuildInit ==
    /\ iteration = 0
    /\ varsOffset = 0
    /\ playhead = 0
    /\ tweenFrom = 0
    /\ tweenTo = 0
    /\ tweenT = TweenFrames
    /\ loopTime = 0
    /\ scroll = 0
    /\ progress = 0
    /\ direction = 1
    /\ scrolling = FALSE
    /\ pressed = FALSE
    /\ startOffset = 0
    /\ lastSnap = NoSnap
    /\ wrapCalls = <<>>
    /\ nWraps = 0
    /\ hist = <<>>
    /\ config \in [n : 0..MaxItems, spacing : SpacingInputs, dur : DurInputs]
    /\ loop = NoLoop
    /\ phase = "config"
    /\ sampled = NoSample

BuildNext ==
    \/ Build
    \/ Construct
    \/ \E w \in 0..(MaxItems * 2) : Seek(w)

BuildSpec == BuildInit /\ [][BuildNext]_vars

\* ------------------------------------------------------------ claims

\* C1: in every reachable state the time the tween's onUpdate has passed to the
\* loop timeline, and the time it would pass for the playhead as it is,
\* wrapTime(playhead.offset), is >= 0 and < cycleDuration.
C1_WrappedTimeInRange ==
    /\ 0 <= loopTime /\ loopTime < Cycle
    /\ 0 <= wrapTime(playhead) /\ wrapTime(playhead) < Cycle

\* a frame has rendered a playhead more than a cycle below zero at a time
\* inside the cycle
C1_Witness ==
    /\ playhead < -Cycle
    /\ loopTime = wrapTime(playhead)
    /\ loopTime > 0

\* the last driver event
LastEvent == IF hist = <<>> THEN [ev |-> "none", arg |-> 0] ELSE hist[Len(hist)]

\* this step is a call of scrollToOffset (scrollEnd, next or prev)
SnapStep == hist' # hist /\ lastSnap'.kind # "none"

\* this step is the user scrolling the page to s
ScrollStep(s) == hist' = Append(hist, [ev |-> "scroll", arg |-> s])

ScrollTo(s) == [ev |-> "scroll", arg |-> s]

\* C3 as stated: from offset 0 and iteration 0, scrolling from 1 to end and then
\* to end again makes exactly one wrap call and iteration rises by exactly 1.
C3_OneWrapInTotal ==
    hist = <<ScrollTo(Buffer), ScrollTo(ScrollEnd), ScrollTo(ScrollEnd)>>
        => nWraps = 1 /\ iteration = 1

\* C3 as amended: scrolling from 1 to end makes exactly one wrap(+1, 1) call,
\* iteration rises by 1 and the page is put back at 1; scrolling to end again
\* is a second pass and makes a second call: two calls and iteration 2 in total.
C3_OneWrapPerPass ==
    /\ hist = <<ScrollTo(Buffer), ScrollTo(ScrollEnd)>>
        => /\ nWraps = 1 /\ iteration = 1
           /\ wrapCalls = << <<1, Buffer>> >>
           /\ scroll = Buffer /\ progress = Buffer
    /\ hist = <<ScrollTo(Buffer), ScrollTo(ScrollEnd), ScrollTo(ScrollEnd)>>
        => /\ nWraps = 2 /\ iteration = 2
           /\ wrapCalls = << <<1, Buffer>> >>
           /\ scroll = Buffer /\ progress = Buffer

\* the second pass to end has happened
C3_Witness ==
    /\ hist = <<ScrollTo(Buffer), ScrollTo(ScrollEnd), ScrollTo(ScrollEnd)>>
    /\ nWraps = 2

\* C4: with the page at 1, scrolling backward to below 1 makes exactly one
\* wrap(-1, end - 1) call: iteration falls by 1, the page is put at end - 1, and
\* the onUpdate re-entered by trigger.update() takes the scrubbing branch.
C4_BackwardWrap ==
    [][ \A s \in ScrollInputs :
          (s < Buffer /\ scroll = Buffer /\ progress = Buffer /\ ScrollStep(s)) =>
             /\ wrapCalls' = << <<-1, ScrollEnd - Buffer>> >>
             /\ nWraps' = nWraps + 1
             /\ iteration' = iteration - 1
             /\ scroll' = ScrollEnd - Buffer
             /\ progress' = ScrollEnd - Buffer
             /\ varsOffset' = (iteration' * ScrollEnd + (ScrollEnd - Buffer)) * TicksPerSubPixel
             /\ tweenT' = 0 /\ tweenTo' = varsOffset'
      ]_vars

\* a backward scroll from 1 to 0 has wrapped
C4_Witness ==
    /\ Len(hist) >= 2
    /\ hist[Len(hist) - 1] = ScrollTo(Buffer)
    /\ LastEvent = ScrollTo(0)
    /\ wrapCalls = << <<-1, ScrollEnd - Buffer>> >>
    /\ scroll = ScrollEnd - Buffer

\* C5 as stated: in every reachable state the target offset and iteration satisfy
\* 0 <= (offset - cycleDuration * iteration) / cycleDuration < 1 (every reachable
\* state is between handlers: no wrap is in progress).
C5_ProgressInUnit ==
    /\ 0 <= varsOffset - Cycle * iteration
    /\ varsOffset - Cycle * iteration < Cycle

\* the same relation in the states no drag move has written to
C5_ProgressInUnitNoDrag ==
    (\A i \in DOMAIN hist : hist[i].ev # "drag") => C5_ProgressInUnit

\* C6 as stated: two next-clicks from target offset 0, with the scroll updates
\* they cause processed, end with target offset 2 * spacing.
C6_TwoClicks ==
    (/\ Len(hist) = 2
     /\ hist[1].ev = "next" /\ hist[2].ev = "next"
     /\ scroll = progress)
        => varsOffset = 2 * Spacing

\* the same, for the runs in which the first click's scroll update is processed
\* before the second click is handled
C6_TwoClicksInOrder ==
    (/\ Len(hist) = 2
     /\ hist[1].ev = "next" /\ hist[2].ev = "next"
     /\ hist[2].arg = 2 * Spacing
     /\ scroll = progress)
        => varsOffset = 2 * Spacing

\* the multiple of spacing nearest to offset v (halves go up, as Math.round)
NearestItem(v) ==
    CHOOSE m \in {((v \div Spacing) + k) * Spacing : k \in 0..1} :
        /\ 2 * (m - v) <= Spacing
        /\ 2 * (v - m) < Spacing

\* scrollToOffset has run and the trigger update it caused has been processed
SnapSettled == lastSnap.kind # "none" /\ lastSnap.moved /\ scroll = progress

\* C7 as stated: after scrollToOffset and the scroll update it causes, the target
\* offset is the multiple of spacing nearest to the offset passed in.
C7_TargetIsNearestItem ==
    SnapSettled => varsOffset = NearestItem(lastSnap.arg)

\* ticks of one pixel of scroll: cycleDuration / end
PixelTicks == Buffer * TicksPerSubPixel

\* C7 as amended: after scrollToOffset and the scroll update it causes, the
\* target offset is the multiple of spacing nearest to the offset passed in,
\* unless that multiple is a whole number of cycles: its scroll value 0 is
\* clamped to 1 by progressToScroll and the target is the multiple plus
\* cycleDuration / end.  When scrollToOffset does not move the scroll position
\* off that of the last update nothing updates and the target stays as it was.
C7_TargetIsClampedItem ==
    /\ SnapSettled =>
         varsOffset = IF NearestItem(lastSnap.arg) % Cycle = 0
                      THEN NearestItem(lastSnap.arg) + PixelTicks
                      ELSE NearestItem(lastSnap.arg)
    /\ (lastSnap.kind # "none" /\ ~lastSnap.moved) => varsOffset = lastSnap.from

\* a snap to a whole number of cycles has been clamped, and another to an
\* item inside the cycle has settled after a wrap
C7_Witness ==
    /\ SnapSettled
    /\ NearestItem(lastSnap.arg) % Cycle = 0
    /\ varsOffset = NearestItem(lastSnap.arg) + PixelTicks
    /\ wrapCalls # <<>>

C7_WitnessInside ==
    /\ SnapSettled
    /\ NearestItem(lastSnap.arg) % Cycle # 0
    /\ lastSnap.arg # NearestItem(lastSnap.arg)
    /\ varsOffset = NearestItem(lastSnap.arg)
    /\ wrapCalls # <<>>

\* C8: whenever scrollToOffset computes a snapped progress outside [0,1) it calls
\* wrap(), and right after the call the progress of the snapped offset relative
\* to the new iteration is in [0,1); with N = 31, spacing 0.1, iteration i and
\* offset 3.07 + 3.1 i the snapped offset is 3.1 (i + 1) and its progress is 0 at
\* iteration i + 1.
C8_SnapWraps ==
    [][ SnapStep =>
          /\ (lastSnap'.snapped - Cycle * iteration < 0
                \/ lastSnap'.snapped - Cycle * iteration >= Cycle)
               => /\ nWraps' = nWraps + 1
                  /\ 0 <= lastSnap'.snapped - Cycle * iteration'
                  /\ lastSnap'.snapped - Cycle * iteration' < Cycle
          /\ (NumItems = 31 /\ Spacing * 10 = TicksPerSecond
                /\ 100 * (lastSnap'.arg - Cycle * iteration) = 307 * TicksPerSecond)
               => /\ 10 * lastSnap'.snapped = 31 * (iteration + 1) * TicksPerSecond
                  /\ iteration' = iteration + 1
                  /\ lastSnap'.snapped - Cycle * iteration' = 0
      ]_vars

\* the scenario at iteration 1: offset 3.07 + 3.1 has been snapped to 6.2, and
\* iteration is 2
C8_Witness ==
    /\ lastSnap.kind = "scrollEnd"
    /\ 100 * lastSnap.arg = (307 + 310) * TicksPerSecond
    /\ 10 * lastSnap.snapped = 62 * TicksPerSecond
    /\ iteration = 2
    /\ nWraps = 2

\* this step applies the Snap Policy, scrollToOffset(scrub.vars.offset), a second
\* time: the last driver event was its first application, and the scroll update
\* that one caused has been processed
SecondSnapStep ==
    /\ LastEvent.ev = "scrollEnd"
    /\ lastSnap.kind = "scrollEnd"
    /\ scroll = progress
    /\ hist' = Append(hist, [ev |-> "scrollEnd", arg |-> varsOffset])

\* C9: applying the Snap Policy twice in succession, with the scroll update of
\* the first application processed and no other input in between, gives the
\* same quantized offset and the same iteration the second time.
C9_SnapIdempotent ==
    [][ SecondSnapStep =>
          /\ lastSnap'.snapped = lastSnap.snapped
          /\ iteration' = iteration
      ]_vars

\* the Snap Policy has been applied twice in succession, the first time wrapping
C9_Witness ==
    /\ Len(hist) >= 2
    /\ hist[Len(hist) - 1].ev = "scrollEnd"
    /\ LastEvent.ev = "scrollEnd"
    /\ lastSnap.kind = "scrollEnd"
    /\ lastSnap.snapped = NearestItem(hist[Len(hist) - 1].arg)
    /\ nWraps > 0

\* sub-pixels of scroll between two items: spacing, as scroll
ItemScroll == Spacing \div TicksPerSubPixel

\* this step maps the scroll position back from the offset the scroll driver
\* gave it: scroll is strictly inside [1, end - 1], the target is
\* (iteration + scroll / end) * cycleDuration, and scrollToOffset is called with it
RoundTripStep ==
    /\ Buffer < scroll /\ scroll < ScrollEnd - Buffer
    /\ scroll = progress
    /\ varsOffset = (iteration * ScrollEnd + scroll) * TicksPerSubPixel
    /\ hist' = Append(hist, [ev |-> "scrollEnd", arg |-> varsOffset])

C10_WitnessBetween ==
    /\ LastEvent.ev = "scrollEnd"
    /\ Len(hist) >= 2
    /\ hist[Len(hist) - 1] = ScrollTo(46000)
    /\ scroll = 45000
    /\ wrapCalls = <<>>

\* v lies between a and b, ends included
Between(a, v, b) == (a <= v /\ v <= b) \/ (b <= v /\ v <= a)

\* C11: the drivers write one target, scrub.vars.offset, and the one scrub tween
\* always runs to the latest value written: every write restarts the tween from
\* the playhead as it is, and every frame moves the playhead toward the target
\* last written, never past it and never toward an older one.
C11_LatestTargetWins ==
    [][ /\ tweenTo' = varsOffset'
        /\ varsOffset' # varsOffset => tweenT' = 0 /\ tweenFrom' = playhead
        /\ playhead' # playhead =>
             /\ varsOffset' = varsOffset
             /\ Between(playhead, playhead', varsOffset)
             /\ tweenT' = tweenT + 1
        /\ tweenT' = TweenFrames => playhead' = varsOffset'
      ]_vars

\* a drag move has replaced the target of a scroll update while the tween was
\* half way to it, and the tween has since run to the drag's target
C11_Witness ==
    /\ Len(hist) >= 2
    /\ hist[Len(hist) - 1].ev = "press"
    /\ LastEvent.ev = "drag"
    /\ tweenT = TweenFrames
    /\ playhead = varsOffset
    /\ tweenFrom # 0
    /\ tweenFrom # hist[1].arg * TicksPerSubPixel
    /\ hist[1].ev = "scroll"

\* C12 as stated: after a drag-end event, with no scroll update pending, the
\* target offset is a multiple of spacing.
C12_DragEndSnaps ==
    (LastEvent.ev = "dragEnd" /\ scroll = progress) => varsOffset % Spacing = 0

\* C13: a drag move sets the target offset to startOffset + (startX - x) *
\* sensitivity, where startOffset is the target offset at the press that began
\* the drag, whatever frames, scroll updates and earlier moves came in between;
\* dragging 1000 px to the left from offset 0 gives target 1.0 s, which is item
\* 10 at spacing 0.1.
C13_DragTarget ==
    [][ /\ hist' = Append(hist, [ev |-> "press", arg |-> 0]) => startOffset' = varsOffset
        /\ hist' # Append(hist, [ev |-> "press", arg |-> 0]) => startOffset' = startOffset
        /\ \A dx \in DragInputs :
             hist' = Append(hist, [ev |-> "drag", arg |-> dx]) =>
               /\ varsOffset' =
                    startOffset + dx * ((SensitivityUs * TicksPerSecond) \div 1000000)
               /\ (startOffset = 0 /\ dx = 1000) =>
                    /\ varsOffset' = TicksPerSecond
                    /\ varsOffset' = 10 * ((SpacingMs * TicksPerSecond) \div 1000)
      ]_vars

\* a second move of one drag, after frames of the tween, has set the target
\* 1000 px from the press's offset 0: 1.0 s
C13_Witness ==
    /\ hist = <<[ev |-> "press", arg |-> 0], [ev |-> "drag", arg |-> 100],
                [ev |-> "drag", arg |-> 1000]>>
    /\ playhead # 0
    /\ startOffset = 0
    /\ varsOffset = TicksPerSecond

\* the arguments of buildSeamlessLoop are invalid: no item, or spacing <= 0
InvalidConfig == config.n = 0 \/ config.spacing <= 0

\* C14 as stated: with an invalid configuration the build ends in an error:
\* buildSeamlessLoop returns no loop timeline whose cycleDuration is 0 or
\* negative, and no scrubber is created from it.
C14_InvalidConfigRejected ==
    InvalidConfig =>
        /\ loop.built => loop.cycleDuration > 0
        /\ phase # "scrubbing"

\* C14, what the code does: it builds a loop for every configuration
C14_AlwaysBuilds ==
    phase # "config" => loop.built /\ loop.cycleDuration = config.n * config.spacing

\* C15 as stated: for N >= 1 and spacing > 0, the raw timeline at the read
\* position t = cycleDuration + dur / 2 + w has the same running animations,
\* as (item, time into the animation) pairs, as at t + cycleDuration and at
\* t - cycleDuration.
C15_SeamlessCycle ==
    (sampled.taken /\ ~InvalidConfig) =>
        /\ ActiveAt(loop, sampled.t) = ActiveAt(loop, sampled.t + loop.cycleDuration)
        /\ ActiveAt(loop, sampled.t) = ActiveAt(loop, sampled.t - loop.cycleDuration)

\* the running animations of an endless repetition of the items at time t
IdealAt(l, t) ==
    {<<k % l.n, t - k * l.spacing>> :
        k \in {j \in (-(l.dur + 1))..(t + 1) :
                 j * l.spacing <= t /\ t <= j * l.spacing + l.dur}}

\* C15, the end of the loop against its start: the raw timeline at time
\* 2 * cycleDuration + dur / 2 and at time cycleDuration + dur / 2
C15_LoopEndIsStart ==
    (phase = "scrubbing" /\ ~InvalidConfig) =>
        ActiveAt(loop, loop.to) = ActiveAt(loop, loop.from)

\* C15, what holds: when dur < 2 * cycleDuration every read position shows what
\* an endless repetition of the items shows, and the loop's end is its start
C15_SeamlessWhenShort ==
    (sampled.taken /\ ~InvalidConfig /\ loop.dur < 2 * loop.cycleDuration) =>
        /\ ActiveAt(loop, sampled.t) = IdealAt(loop, sampled.t)
        /\ ActiveAt(loop, loop.to) = ActiveAt(loop, loop.from)

\* the target (i + s / end) * cycleDuration of iteration i and scroll position s
Unwrapped(i, s) == (i * ScrollEnd + s) * TicksPerSubPixel

\* 2 / end of a cycle
TwoPixels == 2 * Buffer * TicksPerSubPixel

\* only the user's scrolling has driven the picker so far
ScrollsAlone == \A i \in DOMAIN hist : hist[i].ev = "scroll"

\* C16: a scroll to s > end - 1 wraps forward and leaves the target at
\* (i + 1 + 1/end) cycles, which is at least (i + s/end) cycles and at most 2/end
\* of a cycle more; a backward scroll to s < 1 wraps backward and leaves the
\* target at (i - 1 + (end-1)/end) cycles, at most (i + s/end) cycles and at most
\* 2/end of a cycle less; and while only the user's scrolling drives the picker
\* a forward update never lowers the target and a backward update never raises it.
C16_WrapDoesNotJump ==
    [][ \A s \in ScrollInputs :
          ScrollStep(s) =>
            /\ s > ScrollEnd - Buffer =>
                 /\ iteration' = iteration + 1
                 /\ varsOffset' = Unwrapped(iteration + 1, Buffer)
                 /\ varsOffset' >= Unwrapped(iteration, s)
                 /\ varsOffset' - Unwrapped(iteration, s) <= TwoPixels
            /\ (s < Buffer /\ s < progress) =>
                 /\ iteration' = iteration - 1
                 /\ varsOffset' = Unwrapped(iteration - 1, ScrollEnd - Buffer)
                 /\ varsOffset' <= Unwrapped(iteration, s)
                 /\ Unwrapped(iteration, s) - varsOffset' <= TwoPixels
            /\ ScrollsAlone =>
                 /\ s > progress => varsOffset' >= varsOffset
                 /\ s < progress => varsOffset' <= varsOffset
      ]_vars

\* a forward wrap and then a backward wrap, by scrolling alone
C16_Witness ==
    /\ hist = <<ScrollTo(ScrollEnd), ScrollTo(0)>>
    /\ nWraps = 2
    /\ iteration = 0
    /\ varsOffset = Unwrapped(0, ScrollEnd - Buffer)

\* the scroll positions between the two wrap zones
NormalZone == Buffer..(ScrollEnd - Buffer)

\* C17: every scroll position written by wrap() or scrollToOffset lies in
\* [1, end - 1]; a handler calls wrap() at most once, so the update that wrap()
\* forces takes the scrubbing branch and the handler ends; an event changes
\* iteration at most once, by that call's delta.
C17_EngineScrollInNormalZone ==
    [][ /\ Len(wrapCalls') <= 1
        /\ nWraps' <= nWraps + 1
        /\ nWraps' # nWraps =>
             /\ Len(wrapCalls') = 1
             /\ wrapCalls'[1][2] \in NormalZone
             /\ scroll' = wrapCalls'[1][2]
             /\ progress' = scroll'
             /\ iteration' = iteration + wrapCalls'[1][1]
        /\ SnapStep => scroll' \in NormalZone
        /\ nWraps' = nWraps => iteration' = iteration
      ]_vars

\* scrollToOffset has wrapped, and the forced update has scrubbed to where
\* wrap() put the page
C17_Witness ==
    /\ LastEvent.ev \in {"next", "prev", "scrollEnd"}
    /\ lastSnap.kind = LastEvent.ev
    /\ Len(wrapCalls) = 1
    /\ scroll = wrapCalls[1][2]
    /\ progress = scroll
    /\ scroll \in NormalZone

\* this step is a press or a move of the drag
DragStep ==
    \/ hist' = Append(hist, [ev |-> "press", arg |-> 0])
    \/ \E dx \in DragInputs : hist' = Append(hist, [ev |-> "drag", arg |-> dx])

\* this step is a frame of the scrub tween
FrameStep == hist' = hist /\ tweenT' = tweenT + 1

\* C18: iteration changes only in a step that calls wrap().  A scroll update
\* outside both wrap zones, a drag press or move, a tween frame, and a
\* scrollToOffset whose snapped progress is in [0, 1) call no wrap and leave
\* iteration as it is; drag press, drag move and tween frames also leave the
\* scroll position as it is.
C18_OnlyWrapChangesIteration ==
    [][ /\ nWraps' = nWraps => iteration' = iteration
        /\ \A s \in ScrollInputs :
             (ScrollStep(s) /\ ~(s > ScrollEnd - Buffer) /\ ~(s < Buffer /\ s < progress)) =>
                 nWraps' = nWraps /\ iteration' = iteration
        /\ DragStep =>
             /\ nWraps' = nWraps /\ iteration' = iteration
             /\ scroll' = scroll /\ progress' = progress
        /\ FrameStep =>
             /\ nWraps' = nWraps /\ iteration' = iteration
             /\ scroll' = scroll /\ progress' = progress
        /\ (SnapStep /\ 0 <= lastSnap'.num /\ lastSnap'.num < Cycle) =>
             nWraps' = nWraps /\ iteration' = iteration
      ]_vars

\* after a forward wrap, a click on next within the cycle, its tween's frames
\* and a press: iteration is still the one the wrap left
C18_Witness ==
    /\ Len(hist) = 3
    /\ hist[1] = ScrollTo(ScrollEnd)
    /\ hist[2].ev = "next"
    /\ hist[3].ev = "press"
    /\ lastSnap.kind = "next" /\ 0 <= lastSnap.num /\ lastSnap.num < Cycle
    /\ tweenT = TweenFrames
    /\ iteration = 1 /\ nWraps = 1

\* the scrub tween has played to its end
TweenDone == tweenT = TweenFrames

\* C19: with fair frames, once no driver event writes a new target the playhead
\* offset comes to equal the last target written and stays there.  A running
\* tween always has a next frame, a new target may arrive at any frame and
\* restarts the tween from the playhead as it is, and every frame recomputes the
\* wrapped time from the playhead offset of that frame.
C19_PlayheadSettles ==
    /\ [](~TweenDone => ENABLED TweenFrame)
    /\ <>[](TweenDone /\ playhead = varsOffset)
    /\ [][ /\ FrameStep => loopTime' = Wrap(0, Cycle, playhead')
           /\ (TweenDone /\ playhead = varsOffset /\ varsOffset' = varsOffset) =>
                 playhead' = playhead
           /\ varsOffset' # varsOffset => tweenT' = 0 /\ tweenFrom' = playhead
         ]_vars

\* a target that arrived while the tween for the previous one was in flight
\* has been reached
C19_Witness ==
    /\ Len(hist) = 2
    /\ hist[1] = ScrollTo(46000)
    /\ hist[2].ev = "next"
    /\ tweenFrom \notin {0, 46000 * TicksPerSubPixel}
    /\ TweenDone
    /\ playhead = varsOffset
    /\ varsOffset = 48000
    /\ loopTime = 48000

=============================================================================
